---- MODULE Spec2Model ----
(***************************************************************************)
(* ICS-07 Tendermint light client: the client-state execution functions    *)
(* of ibc-clients/ics07-tendermint/src/client_state/execution.rs           *)
(* (initialise, update_state, update_on_misbehaviour, update_on_upgrade,   *)
(* prune_oldest_consensus_state) run against one client's host store.      *)
(*                                                                         *)
(* Optional values are sequences: << >> is None, <<x>> is Some(x).         *)
(* A Height is a pair <<revision_number, revision_height>>.                *)
(* A Timestamp is a natural number; 0 is the host Timestamp that has no    *)
(* Tendermint time (into_tm_time() = None).                                *)
(***************************************************************************)
EXTENDS Integers, Sequences, FiniteSets, TLC

VARIABLES store, host_timestamp, host_height, last, pruned, calls

vars == <<store, host_timestamp, host_height, last, pruned, calls>>

----------------------------------------------------------------------------
(* Bounds of the model *)

\* the old chain has revision 0 and heights 1..MaxRevHeight
MaxRevHeight == 2
\* the trusting period the client is created with
TrustingPeriod == 1
\* number of execution calls in one behaviour
MaxCalls == 3

----------------------------------------------------------------------------
(* Heights *)

\* the heights of the old chain, and the first height of the upgraded chain
Heights == ({0} \X (1..MaxRevHeight)) \cup {<<1, 1>>}

\* derived Ord of Height: lexicographic on (revision_number, revision_height)
HeightLT(a, b) == a[1] < b[1] \/ (a[1] = b[1] /\ a[2] < b[2])

HeightLE(a, b) == a = b \/ HeightLT(a, b)

MaxHeight(a, b) == IF HeightLT(a, b) THEN b ELSE a

\* Height::min(revision_number), the reserved frozen-marker height
HeightMin(revision_number) == <<revision_number, 0>>

\* the least height of a non-empty set of heights
LeastHeight(S) == CHOOSE h \in S : \A g \in S : HeightLE(h, g)

RECURSIVE SortHeights(_)
\* heights.sort(): the heights of S as an ascending sequence
SortHeights(S) ==
    IF S = {} THEN << >>
    ELSE LET h == LeastHeight(S) IN <<h>> \o SortHeights(S \ {h})

----------------------------------------------------------------------------
(* Values carried by the messages *)

HeaderTypeUrl == "/ibc.lightclients.tendermint.v1.Header"
ConsensusStateTypeUrl == "/ibc.lightclients.tendermint.v1.ConsensusState"
ClientStateTypeUrl == "/ibc.lightclients.tendermint.v1.ClientState"
MisbehaviourTypeUrl == "/ibc.lightclients.tendermint.v1.Misbehaviour"
MalformedTypeUrl == "/malformed"

\* block timestamps: an early and a late instant; the host clock runs from
\* the early instant to one past the late instant, so that a consensus
\* state is seen before, at and after its expiry
BlockTimes == {1, 2}

\* a timestamp so late that adding the trusting period overflows
LateTime == (CHOOSE t \in BlockTimes : \A u \in BlockTimes : u <= t) + TrustingPeriod

Headers ==
    [height : Heights, timestamp : BlockTimes,
     app_hash : {"root_a"}, next_validators_hash : {"vals_a"}]

\* the consensus states a client is created with: the creator chooses the
\* timestamp, also one so late that adding a trusting period overflows
ConsensusStates ==
    [root : {"root_a"}, timestamp : BlockTimes \cup {LateTime},
     next_validators_hash : {"vals_a"}]

\* the consensus states submitted with an upgrade
UpgradedConsensusStates ==
    [root : {"root_b"}, timestamp : BlockTimes, next_validators_hash : {"vals_b"}]

\* the client states a client is created with
InitialClientStates ==
    [chain_id : {"old"}, trust_level : {"1/3"},
     trusting_period : {TrustingPeriod}, unbonding_period : {TrustingPeriod + 1},
     max_clock_drift : {1}, latest_height : Heights,
     frozen_height : {<< >>}, proof_specs : {"specs_old"},
     upgrade_path : {"path_old"},
     allow_update : {[after_expiry |-> FALSE, after_misbehaviour |-> TRUE]}]

\* the client states a relayer submits with an upgrade: the client-chosen
\* fields carry values of the relayer's choosing
UpgradedClientStates ==
    [chain_id : {"new"}, trust_level : {"2/3"},
     trusting_period : {TrustingPeriod + 2}, unbonding_period : {TrustingPeriod, TrustingPeriod + 3},
     max_clock_drift : {2}, latest_height : Heights,
     frozen_height : {<<HeightMin(1)>>}, proof_specs : {"specs_new"},
     upgrade_path : {"path_new"},
     allow_update : {[after_expiry |-> TRUE, after_misbehaviour |-> FALSE]}]

\* a protobuf Any: a type_url and the value it encodes
ProtoAny(type_url, value) == [type_url |-> type_url, value |-> value]

Malformed == ProtoAny(MalformedTypeUrl, << >>)

AnyHeaders == {ProtoAny(HeaderTypeUrl, h) : h \in Headers} \cup {Malformed}
AnyConsensusStates == {ProtoAny(ConsensusStateTypeUrl, c) : c \in ConsensusStates} \cup {Malformed}
\* the payload pairs of an upgrade: every pair of well-formed payloads, and a
\* malformed payload in either place
UpgradeMessages ==
    LET cs == {ProtoAny(ClientStateTypeUrl, c) : c \in UpgradedClientStates}
        cons == {ProtoAny(ConsensusStateTypeUrl, c) : c \in UpgradedConsensusStates}
    IN  (cs \X cons)
        \cup {<<Malformed, CHOOSE c \in cons : TRUE>>}
        \cup {<<CHOOSE c \in cs : TRUE, Malformed>>}

AnyMisbehaviours == {ProtoAny(MisbehaviourTypeUrl, << >>), Malformed}

\* Result values of the fallible operations
Ok(v) == [ok |-> TRUE, val |-> v, err |-> ""]
Err(e) == [ok |-> FALSE, val |-> << >>, err |-> e]

\* TryFrom<Any>: the payload decodes when its type_url is the expected one
TryFromAny(any, type_url) ==
    IF any.type_url = type_url THEN Ok(any.value) ELSE Err("Decode")

----------------------------------------------------------------------------
(* ClientState and ConsensusState operations of ibc-client-tendermint-types *)

\* ConsensusState::from(Header)
ConsensusStateFromHeader(header) ==
    [root |-> header.app_hash, timestamp |-> header.timestamp,
     next_validators_hash |-> header.next_validators_hash]

\* ConsensusState::new(root, timestamp, next_validators_hash)
ConsensusStateNew(root, timestamp, next_validators_hash) ==
    [root |-> root, timestamp |-> timestamp,
     next_validators_hash |-> next_validators_hash]

\* ClientState::with_header: latest_height becomes the maximum of the two
with_header(client_state, header) ==
    Ok([client_state EXCEPT !.latest_height = MaxHeight(header.height, @)])

\* ClientState::with_frozen_height
with_frozen_height(client_state, h) ==
    [client_state EXCEPT !.frozen_height = <<h>>]

\* ClientState::zero_custom_fields: the client-chosen fields are nulled
zero_custom_fields(client_state) ==
    [client_state EXCEPT
        !.trusting_period = 0,
        !.trust_level = "0/0",
        !.allow_update = [after_expiry |-> FALSE, after_misbehaviour |-> FALSE],
        !.frozen_height = << >>,
        !.max_clock_drift = 0]

\* ClientState::new: builds an unfrozen client state and validates it
ClientStateNew(chain_id, trust_level, trusting_period, unbonding_period, max_clock_drift, latest_height, proof_specs, upgrade_path, allow_update) ==
    IF trusting_period < unbonding_period
    THEN Ok([chain_id |-> chain_id, trust_level |-> trust_level,
             trusting_period |-> trusting_period,
             unbonding_period |-> unbonding_period,
             max_clock_drift |-> max_clock_drift,
             latest_height |-> latest_height, frozen_height |-> << >>,
             proof_specs |-> proof_specs, upgrade_path |-> upgrade_path,
             allow_update |-> allow_update])
    ELSE Err("InvalidTrustingPeriod")

----------------------------------------------------------------------------
(* The host store of one client (the ExecutionContext)                     *)
(*   client_state     : the record at ClientStatePath, optional            *)
(*   consensus_states : ClientConsensusStatePath height -> ConsensusState  *)
(*   update_meta      : height -> (host timestamp, host height) of a write *)

EmptyStore ==
    [client_state |-> << >>, consensus_states |-> << >>, update_meta |-> << >>]

\* a function with key k bound to v
Put(f, k, v) == [x \in DOMAIN f \cup {k} |-> IF x = k THEN v ELSE f[x]]

\* a function without key k
Remove(f, k) == [x \in DOMAIN f \ {k} |-> f[x]]

store_client_state(st, client_state) ==
    [st EXCEPT !.client_state = <<client_state>>]

store_consensus_state(st, height, consensus_state) ==
    [st EXCEPT !.consensus_states = Put(@, height, consensus_state)]

store_update_meta(st, height, ts, hh) ==
    [st EXCEPT !.update_meta = Put(@, height, [host_timestamp |-> ts, host_height |-> hh])]

delete_consensus_state(st, height) ==
    [st EXCEPT !.consensus_states = Remove(@, height)]

delete_update_meta(st, height) ==
    [st EXCEPT !.update_meta = Remove(@, height)]

\* CommonContext::consensus_state_heights
consensus_state_heights(st) == DOMAIN st.consensus_states

\* the outcome of an execution function: its result and the store it leaves
Done(st, ret) == [ok |-> TRUE, ret |-> ret, store |-> st, err |-> ""]
Fail(st, e) == [ok |-> FALSE, ret |-> << >>, store |-> st, err |-> e]

----------------------------------------------------------------------------
(* Timestamps *)

\* the last instant a Tendermint Time can hold
TimeLimit == LateTime

\* Time + Duration, which fails when the sum is out of the range of Time
TimeAdd(t, d) == IF t + d > TimeLimit THEN Err("Overflow") ELSE Ok(t + d)

\* Timestamp::into_tm_time: the host Timestamp 0 has no Tendermint time
into_tm_time(ts) == IF ts = 0 THEN << >> ELSE <<ts>>

----------------------------------------------------------------------------
(* prune_oldest_consensus_state *)

RECURSIVE PruneLoopKeepsAtExpiry(_, _, _, _)
\* PruneLoop with the bug of keeping a consensus state whose expiry is the
\* host timestamp (>= in place of >)
PruneLoopKeepsAtExpiry(client_state, st, ts, heights) ==
    IF heights = << >> THEN Done(st, << >>)
    ELSE
      LET height == Head(heights)
          tm_consensus_state == st.consensus_states[height]
          tm_consensus_state_expiry ==
              TimeAdd(tm_consensus_state.timestamp, client_state.trusting_period)
      IN  IF into_tm_time(ts) = << >>
          THEN Fail(st, "host timestamp is not a valid TM timestamp")
          ELSE IF ~tm_consensus_state_expiry.ok
          THEN Fail(st, "Timestamp overflow error occurred while attempting to parse TmConsensusState")
          ELSE IF tm_consensus_state_expiry.val >= ts
          THEN Done(st, << >>)
          ELSE PruneLoopKeepsAtExpiry(client_state,
                         delete_update_meta(delete_consensus_state(st, height), height),
                         ts, Tail(heights))

RECURSIVE PruneLoopKeepsUpdateMeta(_, _, _, _)
\* PruneLoop with the bug of deleting the consensus state without its update
\* metadata
PruneLoopKeepsUpdateMeta(client_state, st, ts, heights) ==
    IF heights = << >> THEN Done(st, << >>)
    ELSE
      LET height == Head(heights)
          tm_consensus_state == st.consensus_states[height]
          tm_consensus_state_expiry ==
              TimeAdd(tm_consensus_state.timestamp, client_state.trusting_period)
      IN  IF into_tm_time(ts) = << >>
          THEN Fail(st, "host timestamp is not a valid TM timestamp")
          ELSE IF ~tm_consensus_state_expiry.ok
          THEN Fail(st, "Timestamp overflow error occurred while attempting to parse TmConsensusState")
          ELSE IF tm_consensus_state_expiry.val > ts
          THEN Done(st, << >>)
          ELSE PruneLoopKeepsUpdateMeta(client_state,
                         delete_consensus_state(st, height), ts, Tail(heights))

RECURSIVE PruneLoopSkipsUnexpired(_, _, _, _)
\* PruneLoop with the bug of passing over an unexpired consensus state and
\* going on with the next height (continue in place of break)
PruneLoopSkipsUnexpired(client_state, st, ts, heights) ==
    IF heights = << >> THEN Done(st, << >>)
    ELSE
      LET height == Head(heights)
          tm_consensus_state == st.consensus_states[height]
          tm_consensus_state_expiry ==
              TimeAdd(tm_consensus_state.timestamp, client_state.trusting_period)
      IN  IF into_tm_time(ts) = << >>
          THEN Fail(st, "host timestamp is not a valid TM timestamp")
          ELSE IF ~tm_consensus_state_expiry.ok
          THEN Fail(st, "Timestamp overflow error occurred while attempting to parse TmConsensusState")
          ELSE IF tm_consensus_state_expiry.val > ts
          THEN PruneLoopSkipsUnexpired(client_state, st, ts, Tail(heights))
          ELSE PruneLoopSkipsUnexpired(client_state,
                         delete_update_meta(delete_consensus_state(st, height), height),
                         ts, Tail(heights))

RECURSIVE PruneLoopConvertsFirst(_, _, _, _)
\* PruneLoop with the host timestamp converted before the loop, so that an
\* unconvertible host timestamp fails for an empty archive too
PruneLoopConvertsFirst(client_state, st, ts, heights) ==
    IF into_tm_time(ts) = << >>
    THEN Fail(st, "host timestamp is not a valid TM timestamp")
    ELSE IF heights = << >> THEN Done(st, << >>)
    ELSE
      LET height == Head(heights)
          tm_consensus_state == st.consensus_states[height]
          tm_consensus_state_expiry ==
              TimeAdd(tm_consensus_state.timestamp, client_state.trusting_period)
      IN  IF ~tm_consensus_state_expiry.ok
          THEN Fail(st, "Timestamp overflow error occurred while attempting to parse TmConsensusState")
          ELSE IF tm_consensus_state_expiry.val > ts
          THEN Done(st, << >>)
          ELSE PruneLoopConvertsFirst(client_state,
                         delete_update_meta(delete_consensus_state(st, height), height),
                         ts, Tail(heights))

RECURSIVE PruneLoop(_, _, _, _)
\* the loop over the sorted heights, the store threaded through it
PruneLoop(client_state, st, ts, heights) ==
    IF heights = << >> THEN Done(st, << >>)
    ELSE
      LET height == Head(heights)
          tm_consensus_state == st.consensus_states[height]
          tm_host_timestamp == into_tm_time(ts)
          tm_consensus_state_expiry ==
              TimeAdd(tm_consensus_state.timestamp, client_state.trusting_period)
      IN  IF tm_host_timestamp = << >>
          THEN Fail(st, "host timestamp is not a valid TM timestamp")
          ELSE IF ~tm_consensus_state_expiry.ok
          THEN Fail(st, "Timestamp overflow error occurred while attempting to parse TmConsensusState")
          ELSE IF tm_consensus_state_expiry.val > tm_host_timestamp[1]
          THEN Done(st, << >>)
          ELSE PruneLoop(client_state,
                         delete_update_meta(delete_consensus_state(st, height), height),
                         ts, Tail(heights))

\* prune_oldest_consensus_state with the bug of treating a client without
\* consensus states as an error
prune_oldest_consensus_state_needs_states(client_state, st, ts) ==
    IF consensus_state_heights(st) = {}
    THEN Fail(st, "NotFound")
    ELSE PruneLoop(client_state, st, ts, SortHeights(consensus_state_heights(st)))

prune_oldest_consensus_state(client_state, st, ts) ==
    PruneLoop(client_state, st, ts, SortHeights(consensus_state_heights(st)))

----------------------------------------------------------------------------
(* initialise *)

\* initialise with the bug of storing no update metadata for the consensus
\* state it stores
initialise_without_update_meta(client_state, st, ts, hh, consensus_state) ==
    LET tm_consensus_state == TryFromAny(consensus_state, ConsensusStateTypeUrl)
    IN  IF ~tm_consensus_state.ok THEN Fail(st, tm_consensus_state.err)
        ELSE
          LET s1 == store_client_state(st, client_state)
              s2 == store_consensus_state(s1, client_state.latest_height,
                                          tm_consensus_state.val)
          IN  Done(s2, << >>)

initialise(client_state, st, ts, hh, consensus_state) ==
    LET tm_consensus_state == TryFromAny(consensus_state, ConsensusStateTypeUrl)
    IN  IF ~tm_consensus_state.ok THEN Fail(st, tm_consensus_state.err)
        ELSE
          LET s1 == store_client_state(st, client_state)
              s2 == store_consensus_state(s1, client_state.latest_height,
                                          tm_consensus_state.val)
              s3 == store_update_meta(s2, client_state.latest_height, ts, hh)
          IN  Done(s3, << >>)

----------------------------------------------------------------------------
(* update_state *)

\* update_state_write with the bug of taking the header's height as the latest
\* height instead of the maximum with_header keeps
update_state_write_latest_is_header(client_state, st, ts, hh, header) ==
    LET header_height == header.height
        new_consensus_state == ConsensusStateFromHeader(header)
        new_client_state == [client_state EXCEPT !.latest_height = header_height]
        s1 == store_consensus_state(st, header_height, new_consensus_state)
        s2 == store_client_state(s1, new_client_state)
        s3 == store_update_meta(s2, header_height, ts, hh)
    IN  Done(s3, <<header_height>>)

\* update_state_write with the bug of storing the consensus state at the
\* client's latest height, as initialise does, instead of the header's height
update_state_write_at_latest(client_state, st, ts, hh, header) ==
    LET header_height == header.height
        new_consensus_state == ConsensusStateFromHeader(header)
        new_client_state == with_header(client_state, header)
        s1 == store_consensus_state(st, client_state.latest_height, new_consensus_state)
        s2 == store_client_state(s1, new_client_state.val)
        s3 == store_update_meta(s2, client_state.latest_height, ts, hh)
    IN  Done(s3, <<header_height>>)

\* update_state_write with the bug of storing the consensus state and its
\* update metadata without the client state with_header returns
update_state_write_keeps_client_state(client_state, st, ts, hh, header) ==
    LET header_height == header.height
        new_consensus_state == ConsensusStateFromHeader(header)
        s1 == store_consensus_state(st, header_height, new_consensus_state)
        s3 == store_update_meta(s1, header_height, ts, hh)
    IN  Done(s3, <<header_height>>)

\* update_state_write with the bug of storing a client state rebuilt without
\* its frozen height
update_state_write_unfreezes(client_state, st, ts, hh, header) ==
    LET header_height == header.height
        new_consensus_state == ConsensusStateFromHeader(header)
        new_client_state == with_header(client_state, header)
        s1 == store_consensus_state(st, header_height, new_consensus_state)
        s2 == store_client_state(s1, [new_client_state.val EXCEPT !.frozen_height = << >>])
        s3 == store_update_meta(s2, header_height, ts, hh)
    IN  Done(s3, <<header_height>>)

\* the branch taken when no consensus state is stored at the header height
update_state_write(client_state, st, ts, hh, header) ==
    LET header_height == header.height
        new_consensus_state == ConsensusStateFromHeader(header)
        new_client_state == with_header(client_state, header)
        s1 == store_consensus_state(st, header_height, new_consensus_state)
        s2 == store_client_state(s1, new_client_state.val)
        s3 == store_update_meta(s2, header_height, ts, hh)
    IN  IF ~new_client_state.ok THEN Fail(st, new_client_state.err)
        ELSE Done(s3, <<header_height>>)

\* update_state with the bug of writing without the check for a consensus
\* state already stored at the header height
update_state_always_writes(client_state, st, ts, hh, any_header) ==
    LET header == TryFromAny(any_header, HeaderTypeUrl)
    IN  IF ~header.ok THEN Fail(st, header.err)
        ELSE
          LET pruning == prune_oldest_consensus_state(client_state, st, ts)
          IN  IF ~pruning.ok THEN Fail(pruning.store, pruning.err)
              ELSE update_state_write(client_state, pruning.store, ts, hh, header.val)

\* update_state with the bug of returning no height from the no-op branch
update_state_noop_returns_nothing(client_state, st, ts, hh, any_header) ==
    LET header == TryFromAny(any_header, HeaderTypeUrl)
    IN  IF ~header.ok THEN Fail(st, header.err)
        ELSE
          LET pruning == prune_oldest_consensus_state(client_state, st, ts)
          IN  IF ~pruning.ok THEN Fail(pruning.store, pruning.err)
              ELSE IF header.val.height \in DOMAIN pruning.store.consensus_states
              THEN Done(pruning.store, << >>)
              ELSE update_state_write(client_state, pruning.store, ts, hh, header.val)

\* update_state with the bug of treating a header below the latest height as
\* already installed
update_state_skips_historical(client_state, st, ts, hh, any_header) ==
    LET header == TryFromAny(any_header, HeaderTypeUrl)
    IN  IF ~header.ok THEN Fail(st, header.err)
        ELSE
          LET pruning == prune_oldest_consensus_state(client_state, st, ts)
          IN  IF ~pruning.ok THEN Fail(pruning.store, pruning.err)
              ELSE IF \/ header.val.height \in DOMAIN pruning.store.consensus_states
                      \/ HeightLT(header.val.height, client_state.latest_height)
              THEN Done(pruning.store, <<header.val.height>>)
              ELSE update_state_write(client_state, pruning.store, ts, hh, header.val)

\* update_state with the bug of writing the update metadata again when the
\* header is already installed
update_state_restamps_duplicate(client_state, st, ts, hh, any_header) ==
    LET header == TryFromAny(any_header, HeaderTypeUrl)
    IN  IF ~header.ok THEN Fail(st, header.err)
        ELSE
          LET pruning == prune_oldest_consensus_state(client_state, st, ts)
          IN  IF ~pruning.ok THEN Fail(pruning.store, pruning.err)
              ELSE IF header.val.height \in DOMAIN pruning.store.consensus_states
              THEN Done(store_update_meta(pruning.store, header.val.height, ts, hh),
                        <<header.val.height>>)
              ELSE update_state_write(client_state, pruning.store, ts, hh, header.val)

\* update_state with the bug of pruning before it decodes the header
update_state_prunes_before_decoding(client_state, st, ts, hh, any_header) ==
    LET pruning == prune_oldest_consensus_state(client_state, st, ts)
        header == TryFromAny(any_header, HeaderTypeUrl)
    IN  IF ~pruning.ok THEN Fail(pruning.store, pruning.err)
        ELSE IF ~header.ok THEN Fail(pruning.store, header.err)
        ELSE IF header.val.height \in DOMAIN pruning.store.consensus_states
        THEN Done(pruning.store, <<header.val.height>>)
        ELSE update_state_write(client_state, pruning.store, ts, hh, header.val)

\* update_state with the bug of pruning after the insertion instead of
\* before the existence check
update_state_prunes_after_writing(client_state, st, ts, hh, any_header) ==
    LET header == TryFromAny(any_header, HeaderTypeUrl)
    IN  IF ~header.ok THEN Fail(st, header.err)
        ELSE
          LET written ==
                  IF header.val.height \in DOMAIN st.consensus_states
                  THEN Done(st, <<header.val.height>>)
                  ELSE update_state_write(client_state, st, ts, hh, header.val)
              pruning == prune_oldest_consensus_state(client_state, written.store, ts)
          IN  IF ~pruning.ok THEN Fail(pruning.store, pruning.err)
              ELSE Done(pruning.store, written.ret)

update_state(client_state, st, ts, hh, any_header) ==
    LET header == TryFromAny(any_header, HeaderTypeUrl)
    IN  IF ~header.ok THEN Fail(st, header.err)
        ELSE
          LET header_height == header.val.height
              pruning == prune_oldest_consensus_state(client_state, st, ts)
              s0 == pruning.store
              maybe_existing_consensus_state ==
                  IF header_height \in DOMAIN s0.consensus_states
                  THEN <<s0.consensus_states[header_height]>> ELSE << >>
          IN  IF ~pruning.ok THEN Fail(s0, pruning.err)
              ELSE IF maybe_existing_consensus_state # << >>
              THEN Done(s0, <<header_height>>)
              ELSE update_state_write(client_state, s0, ts, hh, header.val)

----------------------------------------------------------------------------
(* update_on_misbehaviour *)

\* update_on_misbehaviour with the bug of freezing at the client's latest
\* height instead of the one reserved marker
update_on_misbehaviour_freezes_at_latest(client_state, st, ts, hh, client_message) ==
    LET frozen_client_state ==
            with_frozen_height(client_state, client_state.latest_height)
    IN  Done(store_client_state(st, frozen_client_state), << >>)

update_on_misbehaviour(client_state, st, ts, hh, client_message) ==
    LET frozen_client_state == with_frozen_height(client_state, HeightMin(0))
    IN  Done(store_client_state(st, frozen_client_state), << >>)

----------------------------------------------------------------------------
(* update_on_upgrade *)

SentinelRoot == "sentinel_root"

\* merged_client_state with the bug of taking the trusting period from the
\* upgraded client state
merged_client_state_upgraded_period(client_state, upgraded_tm_client_state) ==
    ClientStateNew(upgraded_tm_client_state.chain_id,
                   client_state.trust_level,
                   upgraded_tm_client_state.trusting_period,
                   upgraded_tm_client_state.unbonding_period,
                   client_state.max_clock_drift,
                   upgraded_tm_client_state.latest_height,
                   upgraded_tm_client_state.proof_specs,
                   upgraded_tm_client_state.upgrade_path,
                   client_state.allow_update)

\* merged_client_state with the bug of building the new client state as an
\* update of the current one, which keeps its frozen height
merged_client_state_keeps_frozen(client_state, upgraded_tm_client_state) ==
    IF client_state.trusting_period < upgraded_tm_client_state.unbonding_period
    THEN Ok([client_state EXCEPT
                !.chain_id = upgraded_tm_client_state.chain_id,
                !.unbonding_period = upgraded_tm_client_state.unbonding_period,
                !.latest_height = upgraded_tm_client_state.latest_height,
                !.proof_specs = upgraded_tm_client_state.proof_specs,
                !.upgrade_path = upgraded_tm_client_state.upgrade_path])
    ELSE Err("InvalidTrustingPeriod")

\* merged_client_state with the bug of building the new client state without
\* the validation ClientState::new does
merged_client_state_unchecked(client_state, upgraded_tm_client_state) ==
    Ok([chain_id |-> upgraded_tm_client_state.chain_id,
        trust_level |-> client_state.trust_level,
        trusting_period |-> client_state.trusting_period,
        unbonding_period |-> upgraded_tm_client_state.unbonding_period,
        max_clock_drift |-> client_state.max_clock_drift,
        latest_height |-> upgraded_tm_client_state.latest_height,
        frozen_height |-> << >>,
        proof_specs |-> upgraded_tm_client_state.proof_specs,
        upgrade_path |-> upgraded_tm_client_state.upgrade_path,
        allow_update |-> client_state.allow_update])

\* the new client state: chain-chosen parameters from the upgraded client
\* state, client-chosen parameters from the current one
merged_client_state(client_state, upgraded_tm_client_state) ==
    ClientStateNew(upgraded_tm_client_state.chain_id,
                   client_state.trust_level,
                   client_state.trusting_period,
                   upgraded_tm_client_state.unbonding_period,
                   client_state.max_clock_drift,
                   upgraded_tm_client_state.latest_height,
                   upgraded_tm_client_state.proof_specs,
                   upgraded_tm_client_state.upgrade_path,
                   client_state.allow_update)

\* sentinel_consensus_state with the bug of keeping the submitted root
sentinel_consensus_state_keeps_root(upgraded_tm_cons_state) ==
    ConsensusStateNew(upgraded_tm_cons_state.root,
                      upgraded_tm_cons_state.timestamp,
                      upgraded_tm_cons_state.next_validators_hash)

\* the new consensus state: the sentinel root, the rest from the upgraded one
sentinel_consensus_state(upgraded_tm_cons_state) ==
    ConsensusStateNew(SentinelRoot,
                      upgraded_tm_cons_state.timestamp,
                      upgraded_tm_cons_state.next_validators_hash)

\* update_on_upgrade with the bug of dropping the consensus states and update
\* metadata of the old chain before it stores those of the new one
update_on_upgrade_resets_archive(client_state, st, ts, hh, upgraded_client_state, upgraded_consensus_state) ==
    LET decoded_client_state == TryFromAny(upgraded_client_state, ClientStateTypeUrl)
        upgraded_tm_cons_state ==
            TryFromAny(upgraded_consensus_state, ConsensusStateTypeUrl)
    IN  IF ~decoded_client_state.ok THEN Fail(st, decoded_client_state.err)
        ELSE IF ~upgraded_tm_cons_state.ok THEN Fail(st, upgraded_tm_cons_state.err)
        ELSE
          LET new_client_state ==
                  merged_client_state(client_state,
                                      zero_custom_fields(decoded_client_state.val))
              latest_height == new_client_state.val.latest_height
              s1 == store_client_state(EmptyStore, new_client_state.val)
              s2 == store_consensus_state(s1, latest_height,
                        sentinel_consensus_state(upgraded_tm_cons_state.val))
              s3 == store_update_meta(s2, latest_height, ts, hh)
          IN  IF ~new_client_state.ok THEN Fail(st, new_client_state.err)
              ELSE Done(s3, latest_height)

update_on_upgrade(client_state, st, ts, hh, upgraded_client_state, upgraded_consensus_state) ==
    LET decoded_client_state == TryFromAny(upgraded_client_state, ClientStateTypeUrl)
        upgraded_tm_cons_state ==
            TryFromAny(upgraded_consensus_state, ConsensusStateTypeUrl)
    IN  IF ~decoded_client_state.ok THEN Fail(st, decoded_client_state.err)
        ELSE IF ~upgraded_tm_cons_state.ok THEN Fail(st, upgraded_tm_cons_state.err)
        ELSE
          LET upgraded_tm_client_state == zero_custom_fields(decoded_client_state.val)
              new_client_state ==
                  merged_client_state(client_state, upgraded_tm_client_state)
              new_consensus_state ==
                  sentinel_consensus_state(upgraded_tm_cons_state.val)
              latest_height == new_client_state.val.latest_height
              s1 == store_client_state(st, new_client_state.val)
              s2 == store_consensus_state(s1, latest_height, new_consensus_state)
              s3 == store_update_meta(s2, latest_height, ts, hh)
          IN  IF ~new_client_state.ok THEN Fail(st, new_client_state.err)
              ELSE Done(s3, latest_height)

----------------------------------------------------------------------------
(* The state machine: every execution call is one host transaction         *)

NoCall ==
    [op |-> "none", args |-> << >>, ok |-> TRUE, ret |-> << >>, err |-> "",
     before |-> EmptyStore, host_timestamp |-> 0, host_height |-> 0,
     repeat |-> FALSE, dup |-> FALSE, plain |-> TRUE]

\* the heights a pruning run deleted from the archive
Deleted(before, after_prune) ==
    DOMAIN before.consensus_states \ DOMAIN after_prune.consensus_states

\* One call as a transaction: its writes are committed when it succeeds and
\* rolled back when it fails.  The history variables record the call:
\*   last.before  the store the call started from
\*   last.repeat  the call repeats the previous call, which succeeded, with
\*                the same arguments at the same host time and height
\*   last.dup     the call submits the header of the previous call, an
\*                update_state that succeeded
\*   last.plain   every call so far was a successful initialise, update_state
\*                or update_on_upgrade, given the client state stored when it
\*                began
\*   pruned       the heights pruning has deleted so far
Transaction(op, args, r, deleted) ==
    /\ calls < MaxCalls
    /\ calls' = calls + 1
    /\ store' = IF r.ok THEN r.store ELSE store
    /\ pruned' = IF r.ok THEN pruned \cup deleted ELSE pruned
    /\ last' = [op |-> op, args |-> args, ok |-> r.ok, ret |-> r.ret,
                err |-> r.err, before |-> store,
                host_timestamp |-> host_timestamp, host_height |-> host_height,
                repeat |-> /\ last.op = op
                           /\ last.ok
                           /\ last.args = args
                           /\ last.host_timestamp = host_timestamp
                           /\ last.host_height = host_height,
                dup |-> /\ op = "update_state"
                        /\ last.op = op
                        /\ last.ok
                        /\ last.args[2] = args[2],
                plain |-> /\ last.plain
                          /\ r.ok
                          /\ op \in {"initialise", "update_state", "update_on_upgrade"}
                          /\ op # "initialise" => <<args[1]>> = store.client_state]
    /\ UNCHANGED <<host_timestamp, host_height>>

Init ==
    /\ store = EmptyStore
    /\ host_timestamp \in {0, 1}
    /\ host_height = 10
    /\ last = NoCall
    /\ pruned = {}
    /\ calls = 0

\* the host produces a block: its clock and its height advance
Tick ==
    /\ host_timestamp \in BlockTimes
    /\ host_timestamp' = host_timestamp + 1
    /\ host_height' = host_height + 1
    /\ UNCHANGED <<store, last, pruned, calls>>

\* create_client: initialise runs once, on the empty store of a new client
Initialise ==
    /\ store.client_state = << >>
    /\ \E client_state \in InitialClientStates, consensus_state \in AnyConsensusStates :
         Transaction("initialise", <<client_state, consensus_state>>,
                     initialise(client_state, store, host_timestamp, host_height,
                                consensus_state),
                     {})

\* the stored client state, which the handlers pass to the execution functions
StoredClientState == store.client_state[1]

UpdateStateCall(client_state, header) ==
    Transaction("update_state", <<client_state, header>>,
                update_state(client_state, store, host_timestamp, host_height, header),
                Deleted(store, prune_oldest_consensus_state(client_state, store,
                                                            host_timestamp).store))

\* update_client with a header
UpdateState ==
    /\ store.client_state # << >>
    /\ \E header \in AnyHeaders : UpdateStateCall(StoredClientState, header)

\* the caller repeats its last update_state call: same client state, same header
UpdateStateAgain ==
    /\ last.op = "update_state"
    /\ last.ok
    /\ UpdateStateCall(last.args[1], last.args[2])

\* update_client with misbehaviour evidence
UpdateOnMisbehaviour ==
    /\ store.client_state # << >>
    /\ \E client_message \in AnyMisbehaviours :
         Transaction("update_on_misbehaviour", <<StoredClientState, client_message>>,
                     update_on_misbehaviour(StoredClientState, store, host_timestamp,
                                            host_height, client_message),
                     {})

\* upgrade_client
UpdateOnUpgrade ==
    /\ store.client_state # << >>
    /\ \E upgrade \in UpgradeMessages :
         Transaction("update_on_upgrade",
                     <<StoredClientState, upgrade[1], upgrade[2]>>,
                     update_on_upgrade(StoredClientState, store, host_timestamp,
                                       host_height, upgrade[1], upgrade[2]),
                     {})

\* a pruning sweep outside update_state: with the stored client state or, on
\* a client that holds nothing yet, with a client state of the caller
Prune ==
    \E client_state \in (IF store.client_state # << >> THEN {StoredClientState} ELSE InitialClientStates) :
        LET r == prune_oldest_consensus_state(client_state, store, host_timestamp)
        IN  Transaction("prune_oldest_consensus_state", <<client_state>>, r,
                        Deleted(store, r.store))

Next ==
    \/ Tick
    \/ Initialise
    \/ UpdateState
    \/ UpdateStateAgain
    \/ UpdateOnMisbehaviour
    \/ UpdateOnUpgrade
    \/ Prune

Spec == Init /\ [][Next]_vars

----------------------------------------------------------------------------
(* Properties of the execution functions *)

\* the client state and the header the last call was given
LastClientState == last.args[1]
LastHeader == last.args[2].value

\* whether the last call was a successful call of op
Returned(op) == last.op = op /\ last.ok

\* the client state a store holds
ClientStateOf(st) == st.client_state[1]

\* expiry of a stored consensus state against a host timestamp
Unexpired(consensus_state, trusting_period, ts) ==
    consensus_state.timestamp + trusting_period > ts

\* C1: update_state is idempotent.  When a successful update_state(C, H) is
\* repeated at once with the same C and H, at the same host timestamp and
\* height, the second call succeeds too, it leaves the store as the first call
\* left it, and every successful call returns exactly [H.height].
C1_UpdateStateIdempotent ==
    /\ Returned("update_state") => last.ret = <<LastHeader.height>>
    /\ (last.op = "update_state" /\ last.repeat) =>
          /\ last.ok
          /\ last.ret = <<LastHeader.height>>
          /\ store = last.before

\* C1 witness: a header that was not stored has been inserted by one call and
\* submitted again by the next, which ran against the store holding it
C1_Witness ==
    /\ last.op = "update_state"
    /\ last.repeat
    /\ last.ok
    /\ HeightLT(LastClientState.latest_height, LastHeader.height)
    /\ LastHeader.height \in DOMAIN store.consensus_states
    /\ store.update_meta[LastHeader.height].host_timestamp = last.host_timestamp

\* C2 as claimed: when the header of a successful update_state is submitted
\* again by the next call (the host clock possibly advanced in between), the
\* update metadata at the header's height is still the pair the store held
\* after the first call
C2_DuplicateKeepsFirstStamp ==
    (last.op = "update_state" /\ last.dup) =>
        /\ LastHeader.height \in DOMAIN store.update_meta
        /\ store.update_meta[LastHeader.height]
             = last.before.update_meta[LastHeader.height]

\* C2 amended: the duplicate keeps the first stamp whenever the consensus
\* state stored at the header's height is unexpired at the host timestamp of
\* the second call; an expired one may be pruned by the second call, which
\* then inserts the header again under its own stamp
C2_DuplicateKeepsStampUnlessExpired ==
    (last.op = "update_state" /\ last.dup) =>
        LET h == LastHeader.height
            first == last.before.update_meta[h]
            second == [host_timestamp |-> last.host_timestamp,
                       host_height |-> last.host_height]
        IN  /\ h \in DOMAIN store.update_meta
            /\ Unexpired(last.before.consensus_states[h],
                         LastClientState.trusting_period, last.host_timestamp)
                 => store.update_meta[h] = first
            /\ store.update_meta[h] \in {first, second}

\* C2 witness: the duplicate arrived after the host clock advanced and the
\* stamp of the first call was kept
C2_Witness ==
    /\ Returned("update_state")
    /\ last.dup
    /\ last.before.update_meta[LastHeader.height].host_timestamp < last.host_timestamp
    /\ store.update_meta[LastHeader.height] = last.before.update_meta[LastHeader.height]

\* the timestamps of the archive do not decrease as the heights ascend
TimestampsAscend(st) ==
    \A g, h \in DOMAIN st.consensus_states :
        HeightLT(g, h) =>
            st.consensus_states[g].timestamp <= st.consensus_states[h].timestamp

C4_LatestHeightMonotone ==
    last.op = "update_state" =>
        HeightLE(ClientStateOf(last.before).latest_height,
                 ClientStateOf(store).latest_height)

\* C4 witness: the third call of a behaviour is an update_state with a header
\* below the latest height
C4_Witness ==
    /\ Returned("update_state")
    /\ calls = MaxCalls
    /\ HeightLT(LastHeader.height, ClientStateOf(store).latest_height)

\* C5: an update_state with a header below the latest height, at a height
\* that holds no consensus state, stores the header's consensus state there
\* and leaves the latest height as it was
C5_HistoricalFillIn ==
    (/\ Returned("update_state")
     /\ HeightLT(LastHeader.height, LastClientState.latest_height)
     /\ LastHeader.height \notin DOMAIN last.before.consensus_states) =>
        /\ LastHeader.height \in DOMAIN store.consensus_states
        /\ store.consensus_states[LastHeader.height] = ConsensusStateFromHeader(LastHeader)
        /\ ClientStateOf(store).latest_height = LastClientState.latest_height

\* C5 witness: a header below the latest height has been filled in
C5_Witness ==
    /\ Returned("update_state")
    /\ HeightLT(LastHeader.height, LastClientState.latest_height)
    /\ LastHeader.height \notin DOMAIN last.before.consensus_states
    /\ LastHeader.height \in DOMAIN store.consensus_states

\* the payloads the last update_on_upgrade was given, decoded
LastUpgradedClientState == last.args[2].value
LastUpgradedConsensusState == last.args[3].value

\* C6: after a successful update_on_upgrade the stored client state has the
\* trust level, trusting period, clock drift and allow_update flags of the
\* current client state and the chain id, unbonding period, latest height,
\* proof specs and upgrade path of the upgraded client state
C6_UpgradeParameterMerge ==
    Returned("update_on_upgrade") =>
        LET new == ClientStateOf(store)
            old == LastClientState
            upgraded == LastUpgradedClientState
        IN  /\ new.trust_level = old.trust_level
            /\ new.trusting_period = old.trusting_period
            /\ new.max_clock_drift = old.max_clock_drift
            /\ new.allow_update = old.allow_update
            /\ new.chain_id = upgraded.chain_id
            /\ new.unbonding_period = upgraded.unbonding_period
            /\ new.latest_height = upgraded.latest_height
            /\ new.proof_specs = upgraded.proof_specs
            /\ new.upgrade_path = upgraded.upgrade_path

\* C6 witness: an upgrade succeeded whose payload chose other client-chosen
\* fields than the current client state has
C6_Witness ==
    /\ Returned("update_on_upgrade")
    /\ LastUpgradedClientState.trust_level # LastClientState.trust_level
    /\ LastUpgradedClientState.trusting_period # LastClientState.trusting_period
    /\ LastUpgradedClientState.max_clock_drift # LastClientState.max_clock_drift
    /\ LastUpgradedClientState.allow_update # LastClientState.allow_update
    /\ LastUpgradedClientState.chain_id # LastClientState.chain_id

C9_UpgradeUnfreezes ==
    Returned("update_on_upgrade") =>
        ClientStateOf(store).frozen_height = << >>

\* C9 witness: update_on_misbehaviour froze the client and the upgrade that
\* followed succeeded
C9_Witness ==
    /\ Returned("update_on_upgrade")
    /\ LastClientState.frozen_height # << >>
    /\ ClientStateOf(last.before).frozen_height = <<HeightMin(0)>>

\* a consensus state appears at height h in this step
Inserted(h) ==
    /\ h \notin DOMAIN store.consensus_states
    /\ h \in DOMAIN store'.consensus_states

\* C10 as claimed: a consensus state appears at a height pruning has deleted
\* only in an update_state call with a header at that height
C10_NoResurrection ==
    [][\A h \in pruned :
         Inserted(h) =>
            /\ last'.op = "update_state"
            /\ last'.args[2].value.height = h]_vars

\* C10 amended: a consensus state appears at a height pruning has deleted only
\* in an update_state call with a header at that height or in an
\* update_on_upgrade call whose upgraded latest height is that height
C10_NoResurrectionButByUpdateOrUpgrade ==
    [][\A h \in pruned :
         Inserted(h) =>
            \/ /\ last'.op = "update_state"
               /\ last'.args[2].value.height = h
            \/ /\ last'.op = "update_on_upgrade"
               /\ last'.args[2].value.latest_height = h]_vars

\* C10 witness: the last call stored a consensus state at a height pruning
\* had deleted
C10_Witness ==
    \E h \in pruned :
        /\ h \notin DOMAIN last.before.consensus_states
        /\ h \in DOMAIN store.consensus_states

\* the heights that hold a consensus state before and after the last call
KeptHeights == DOMAIN last.before.consensus_states \cap DOMAIN store.consensus_states

\* C11 as claimed: no call changes the content of a consensus state that is
\* stored at the same height before and after the call
C11_ConsensusStatesImmutable ==
    \A h \in KeptHeights :
        store.consensus_states[h] = last.before.consensus_states[h]

\* C11 amended: a consensus state stored at the same height before and after
\* a call has the same content, but for two calls: an update_on_upgrade whose
\* upgraded latest height is that height, which stores the sentinel consensus
\* state over it, and an update_state with a header at that height whose
\* pruning step deleted the expired consensus state, which stores the header's
\* consensus state in its place
C11_ImmutableButByUpgradeOrExpiry ==
    \A h \in KeptHeights :
        \/ store.consensus_states[h] = last.before.consensus_states[h]
        \/ /\ Returned("update_on_upgrade")
           /\ LastUpgradedClientState.latest_height = h
           /\ store.consensus_states[h] = sentinel_consensus_state(LastUpgradedConsensusState)
        \/ /\ Returned("update_state")
           /\ LastHeader.height = h
           /\ ~Unexpired(last.before.consensus_states[h],
                         LastClientState.trusting_period, last.host_timestamp)
           /\ store.consensus_states[h] = ConsensusStateFromHeader(LastHeader)

\* C11 witness: an update_state submitted, at a height that holds an unexpired
\* consensus state, a header with another timestamp, and the stored consensus
\* state was kept
C11_Witness ==
    /\ Returned("update_state")
    /\ LastHeader.height \in KeptHeights
    /\ last.before.consensus_states[LastHeader.height] # ConsensusStateFromHeader(LastHeader)
    /\ store.consensus_states[LastHeader.height]
         = last.before.consensus_states[LastHeader.height]

LastPruning ==
    IF last.op \in {"update_state", "prune_oldest_consensus_state"}
    THEN prune_oldest_consensus_state(LastClientState, last.before, last.host_timestamp)
    ELSE Done(last.before, << >>)

\* C13: only pruning deletes.  Every height that held a consensus state or
\* update metadata before a call holds it after the call, unless the pruning
\* step of an update_state (or a pruning run) removed it; initialise,
\* update_on_misbehaviour and update_on_upgrade remove nothing
C13_OnlyPruningDeletes ==
    LET kept == LastPruning.store
    IN  /\ DOMAIN kept.consensus_states \subseteq DOMAIN store.consensus_states
        /\ DOMAIN kept.update_meta \subseteq DOMAIN store.update_meta
        /\ last.op \in {"initialise", "update_on_misbehaviour", "update_on_upgrade"} =>
              /\ DOMAIN last.before.consensus_states \subseteq DOMAIN store.consensus_states
              /\ DOMAIN last.before.update_meta \subseteq DOMAIN store.update_meta

\* C13 witness: an update_on_upgrade ran on an archive of two consensus
\* states and stored a third, and the two are still stored
C13_Witness ==
    /\ Returned("update_on_upgrade")
    /\ Cardinality(DOMAIN last.before.consensus_states) >= 2
    /\ last.ret \notin DOMAIN last.before.consensus_states
    /\ DOMAIN store.consensus_states = DOMAIN last.before.consensus_states \cup {last.ret}
    /\ DOMAIN store.update_meta = DOMAIN last.before.update_meta \cup {last.ret}

\* C14: fresh initialise.  A successful initialise ran on the empty store,
\* and the store after it holds the given client state, one consensus state,
\* the decoded payload, at the client state's latest height, the update
\* metadata (host timestamp, host height) of the call at that height, and
\* nothing else
C14_FreshInitialise ==
    Returned("initialise") =>
        LET latest_height == LastClientState.latest_height
        IN  /\ last.before = EmptyStore
            /\ store.client_state = <<LastClientState>>
            /\ DOMAIN store.consensus_states = {latest_height}
            /\ store.consensus_states[latest_height] = last.args[2].value
            /\ DOMAIN store.update_meta = {latest_height}
            /\ store.update_meta[latest_height] =
                 [host_timestamp |-> last.host_timestamp,
                  host_height |-> last.host_height]

\* C14 witness: a client has been initialised after the host produced a
\* block, and its update metadata carries the host clock of the call
C14_Witness ==
    /\ Returned("initialise")
    /\ last.host_height > 10
    /\ store.update_meta[LastClientState.latest_height].host_timestamp = host_timestamp
    /\ store.update_meta[LastClientState.latest_height].host_height = host_height
    /\ host_height = last.host_height

\* the last call was an update_state with a decodable header at a height that
\* held a consensus state when the call began
DuplicateUpdate ==
    /\ last.op = "update_state"
    /\ last.args[2] # Malformed
    /\ LastHeader.height \in DOMAIN last.before.consensus_states

\* C15 as claimed: an update_state with a header at a height that holds a
\* consensus state succeeds, returns [H.height] and leaves the store as it was
C15_DuplicateUpdateNoWrites ==
    DuplicateUpdate =>
        /\ last.ok
        /\ last.ret = <<LastHeader.height>>
        /\ store = last.before

\* C15 amended: such a call runs its pruning step first.  It fails when the
\* pruning step fails.  When the pruning step succeeds and leaves the consensus
\* state at the header's height, the call succeeds, returns [H.height], leaves
\* the client state as it was and the archive and the update metadata as the
\* pruning step left them; when nothing has expired the store is unchanged.
C15_DuplicateUpdateOnlyPrunes ==
    DuplicateUpdate =>
        /\ last.ok <=> LastPruning.ok
        /\ (LastPruning.ok
              /\ LastHeader.height \in DOMAIN LastPruning.store.consensus_states) =>
                /\ last.ret = <<LastHeader.height>>
                /\ store = LastPruning.store
                /\ store.client_state = last.before.client_state
        /\ (LastPruning.ok /\ Deleted(last.before, LastPruning.store) = {}) =>
                store = last.before

\* C15 witness: a header was submitted at a height that holds an unexpired
\* consensus state and update metadata of an earlier host time, while a lower
\* height held an expired one: the call pruned the lower height and wrote
\* nothing
C15_Witness ==
    /\ DuplicateUpdate
    /\ last.ok
    /\ Deleted(last.before, store) # {}
    /\ LastHeader.height \in DOMAIN store.consensus_states
    /\ store.update_meta[LastHeader.height] = last.before.update_meta[LastHeader.height]
    /\ store.update_meta[LastHeader.height].host_timestamp < last.host_timestamp
    /\ store.client_state = last.before.client_state

\* the expiry of a consensus state is not later than the host timestamp
Expired(consensus_state, trusting_period, ts) ==
    consensus_state.timestamp + trusting_period <= ts

InvalidHostTimestamp == "host timestamp is not a valid TM timestamp"

\* the last call ran the pruning loop at a host timestamp that has no
\* Tendermint time
PrunedAtUnconvertibleTime ==
    /\ \/ last.op = "prune_oldest_consensus_state"
       \/ last.op = "update_state" /\ last.args[2] # Malformed
    /\ into_tm_time(last.host_timestamp) = << >>

\* C17 as claimed: at a host timestamp that has no Tendermint time,
\* prune_oldest_consensus_state and update_state fail with the invalid
\* timestamp error and delete nothing, whatever the archive holds
C17_PruneRejectsUnconvertibleTime ==
    PrunedAtUnconvertibleTime =>
        /\ ~last.ok
        /\ last.err = InvalidHostTimestamp
        /\ store = last.before

\* C17, what the code does: at such a host timestamp the two calls fail with
\* the invalid timestamp error and delete nothing when the archive holds a
\* consensus state; on an empty archive prune_oldest_consensus_state converts
\* nothing and succeeds
C17_PruneRejectsUnconvertibleTimeUnlessEmpty ==
    PrunedAtUnconvertibleTime =>
        /\ DOMAIN last.before.consensus_states # {} =>
              /\ ~last.ok
              /\ last.err = InvalidHostTimestamp
        /\ (last.op = "prune_oldest_consensus_state"
              /\ DOMAIN last.before.consensus_states = {}) => last.ok
        /\ store = last.before

\* C17 witness: a pruning run at a host timestamp without Tendermint time
\* failed, with the invalid timestamp error, on an archive that holds a
\* consensus state whose timestamp cannot take the trusting period
C17_Witness ==
    /\ last.op = "prune_oldest_consensus_state"
    /\ into_tm_time(last.host_timestamp) = << >>
    /\ \E h \in DOMAIN last.before.consensus_states :
           ~TimeAdd(last.before.consensus_states[h].timestamp,
                    LastClientState.trusting_period).ok
    /\ ~last.ok
    /\ last.err = InvalidHostTimestamp

\* the store the last call's function left when it returned, before the host
\* committed or rolled back
LastOutcome ==
    CASE last.op = "initialise" ->
           initialise(last.args[1], last.before, last.host_timestamp,
                      last.host_height, last.args[2])
      [] last.op = "update_state" ->
           update_state(last.args[1], last.before, last.host_timestamp,
                        last.host_height, last.args[2])
      [] last.op = "update_on_upgrade" ->
           update_on_upgrade(last.args[1], last.before, last.host_timestamp,
                             last.host_height, last.args[2], last.args[3])
      [] OTHER -> Done(last.before, << >>)

\* the last call was given a payload that does not decode
MalformedPayload ==
    \/ last.op \in {"initialise", "update_state"} /\ last.args[2] = Malformed
    \/ last.op = "update_on_upgrade" /\ Malformed \in {last.args[2], last.args[3]}

\* C18: a call of initialise, update_state or update_on_upgrade with a
\* payload that does not decode returns the decoding error, and the function
\* has written and pruned nothing when it returns: the store is as before
C18_MalformedPayloadAborts ==
    MalformedPayload =>
        /\ ~last.ok
        /\ last.err = "Decode"
        /\ LastOutcome.store = last.before
        /\ store = last.before

\* C18 witness: an update_state with a malformed header failed on a store
\* whose lowest consensus state has expired, and the expired state is kept
C18_Witness ==
    /\ last.op = "update_state"
    /\ last.args[2] = Malformed
    /\ ~last.ok
    /\ Deleted(last.before, LastPruning.store) # {}
    /\ store = last.before

\* C19: the stored client state has trusting_period < unbonding_period after
\* every call, and an update_on_upgrade whose upgraded unbonding period is not
\* greater than the current trusting period fails and leaves the store as it
\* was
C19_TrustingPeriodBelowUnbonding ==
    /\ store.client_state # << >> =>
          ClientStateOf(store).trusting_period < ClientStateOf(store).unbonding_period
    /\ (/\ last.op = "update_on_upgrade"
        /\ ~MalformedPayload
        /\ LastUpgradedClientState.unbonding_period <= LastClientState.trusting_period) =>
          /\ ~last.ok
          /\ LastOutcome.store = last.before
          /\ store = last.before

\* C19 witness: an upgrade to an unbonding period equal to the trusting
\* period of the client has been rejected
C19_Witness ==
    /\ last.op = "update_on_upgrade"
    /\ ~MalformedPayload
    /\ LastUpgradedClientState.unbonding_period = LastClientState.trusting_period
    /\ ~last.ok
    /\ ClientStateOf(store).unbonding_period > LastClientState.trusting_period

\* C20: after every successful update_state with header H a consensus state
\* and update metadata are stored at H.height
C20_UpdateStateStoresAtHeaderHeight ==
    Returned("update_state") =>
        /\ LastHeader.height \in DOMAIN store.consensus_states
        /\ LastHeader.height \in DOMAIN store.update_meta

\* C20 witness: an update_state inserted, below every stored height, a header
\* whose block timestamp had expired at the host timestamp of the call, after
\* its pruning step had deleted an expired consensus state
C20_Witness ==
    /\ Returned("update_state")
    /\ Expired(ConsensusStateFromHeader(LastHeader), LastClientState.trusting_period,
               last.host_timestamp)
    /\ LastHeader.height \notin DOMAIN last.before.consensus_states
    /\ \A g \in DOMAIN store.consensus_states : HeightLE(LastHeader.height, g)
    /\ Deleted(last.before, LastPruning.store) # {}
    /\ store.consensus_states[LastHeader.height] = ConsensusStateFromHeader(LastHeader)
    /\ store.update_meta[LastHeader.height].host_timestamp = last.host_timestamp

\* a consensus state is stored at the latest height of the stored client state
LatestStored(st) ==
    st.client_state # << >> =>
        ClientStateOf(st).latest_height \in DOMAIN st.consensus_states

\* C21 as claimed: after successful initialise, update_state and
\* update_on_upgrade calls, each given the stored client state, a consensus
\* state is stored at the latest height of the stored client state
C21_LatestHeightStored ==
    last.plain => LatestStored(store)

\* C21 amended: a consensus state is stored at the latest height after a
\* successful initialise or update_on_upgrade; after a successful update_state
\* given the stored client state it is stored there exactly when the pruning
\* step of the call left the consensus state at the latest height, or the
\* call stored the header (none was left at its height) and the header is
\* not below the latest height
C21_LatestHeightStoredUnlessPruned ==
    /\ (Returned("initialise") \/ Returned("update_on_upgrade")) => LatestStored(store)
    /\ (Returned("update_state") /\ <<LastClientState>> = last.before.client_state) =>
          LET left == DOMAIN LastPruning.store.consensus_states
          IN  LatestStored(store) <=>
                \/ LastClientState.latest_height \in left
                \/ /\ LastHeader.height \notin left
                   /\ HeightLE(LastClientState.latest_height, LastHeader.height)

\* C21 witness: an update_state with a header below the latest height ran
\* its pruning step, which deleted a lower consensus state and left the one
\* at the latest height
C21_Witness ==
    /\ last.plain
    /\ Returned("update_state")
    /\ HeightLT(LastHeader.height, LastClientState.latest_height)
    /\ Deleted(last.before, LastPruning.store) # {}
    /\ ClientStateOf(store).latest_height \in DOMAIN store.consensus_states

\* a client state with its latest height left out of the comparison
ButLatestHeight(client_state) ==
    [client_state EXCEPT !.latest_height = HeightMin(0)]

\* C22: a frozen client stays frozen under updates.  The client state stored
\* after a successful update_state has the frozen height and every other
\* field but latest_height of the client state the call was given, and of
\* the client state stored before the call; and the frozen height of the
\* stored client state is cleared by no call but a successful
\* update_on_upgrade
C22_FrozenStaysFrozen ==
    /\ Returned("update_state") =>
          /\ ClientStateOf(store).frozen_height = LastClientState.frozen_height
          /\ ClientStateOf(store).frozen_height = ClientStateOf(last.before).frozen_height
          /\ ButLatestHeight(ClientStateOf(store)) = ButLatestHeight(LastClientState)
    /\ (/\ last.before.client_state # << >>
        /\ ClientStateOf(last.before).frozen_height # << >>
        /\ ClientStateOf(store).frozen_height = << >>) =>
          Returned("update_on_upgrade")

\* C22 witness: after update_on_misbehaviour an update_state stored a header
\* above the latest height, which raised the latest height and left the
\* client frozen
C22_Witness ==
    /\ Returned("update_state")
    /\ LastClientState.frozen_height = <<HeightMin(0)>>
    /\ HeightLT(LastClientState.latest_height, LastHeader.height)
    /\ ClientStateOf(store).latest_height = LastHeader.height
    /\ ClientStateOf(store).frozen_height = <<HeightMin(0)>>

====
